---- MODULE Spec2Model ----
(***************************************************************************)
(* A model of the document-scanner core:                                   *)
(*   - DocumentProcessor.process_document and the stages it calls          *)
(*     (src/document_processor.py),                                        *)
(*   - DocumentProcessor.order_points / correct_perspective as pure        *)
(*     functions over integer pixel points,                                *)
(*   - CameraHandler.capture_high_quality and _select_sharpest_frame       *)
(*     (src/camera_handler.py).                                            *)
(*                                                                         *)
(* A pixel buffer is a record [kind, w, h, ch, hist]: its shape and the    *)
(* sequence of library operations that produced it from the caller's       *)
(* buffer (hist = <<>> is the caller's own buffer).  OpenCV calls are      *)
(* modelled by their effect on the shape and by the conditions under       *)
(* which they raise.                                                       *)
(***************************************************************************)
EXTENDS Integers, Sequences, FiniteSets, TLC

---------------------------------------------------------------------------
\* Bounds of the model

\* largest x coordinate of a contour point
MaxX == 2
\* largest y coordinate of a contour point
MaxY == 3
\* most contours cv2.findContours reports in one call
MaxContours == 2
\* largest enclosed area of a contour
MaxArea == 2
\* longest frame sequence handed directly to _select_sharpest_frame
MaxFrames == 3
\* most contours in a list handed directly to detect_document_contour
MaxRanked == 6
\* most pixels in a row of a buffer whose pixel values are modelled
MaxStrip == 3

---------------------------------------------------------------------------
\* Generic helpers

Max(a, b) == IF a >= b THEN a ELSE b

SeqsUpTo(S, n) == UNION {[1..k -> S] : k \in 0..n}

\* Python's int(np.sqrt(n)) for a small non-negative integer n: the float32
\* square root is exact enough below 2^23 that truncation gives floor(sqrt(n)).
ISqrt(n) == CHOOSE r \in 0..n : r * r <= n /\ (r + 1) * (r + 1) > n

Dist2(p, q) == (p[1] - q[1]) * (p[1] - q[1]) + (p[2] - q[2]) * (p[2] - q[2])

---------------------------------------------------------------------------
\* Pixel buffers

None == [kind |-> "None", w |-> 0, h |-> 0, ch |-> 0, hist |-> <<>>]

Buf(w, h, ch, hist) == [kind |-> "ndarray", w |-> w, h |-> h, ch |-> ch, hist |-> hist]

\* width and height of the photographs the model feeds in: large enough to
\* hold every contour point
ImgW == MaxY + 1
ImgH == MaxY + 1

\* what a caller can pass as `image`: None, an empty array, a 2-D (1-channel)
\* array, a BGR array, a BGRA array
Images ==
    {None} \cup {Buf(w, h, ch, <<>>) : w \in {0, ImgW}, h \in {0, ImgH}, ch \in {1, 3, 4}}

IsEmpty(b) == b.kind = "None" \/ b.w = 0 \/ b.h = 0

\* the spec's well-formed input of the orchestrator: a non-empty 3-channel buffer
WellFormed(b) == b.kind = "ndarray" /\ b.w >= 1 /\ b.h >= 1 /\ b.ch = 3

\* cv2.cvtColor(x, COLOR_BGR2GRAY) raises on None, on an empty array and on an
\* array that has neither 3 nor 4 channels
CvtBGR2GRAYRaises(b) == IsEmpty(b) \/ b.ch \notin {3, 4}

---------------------------------------------------------------------------
\* Library operation chains (the names recorded in a buffer's hist)

PreprocessChain == <<"cvtColor_BGR2GRAY", "GaussianBlur", "Canny", "dilate">>

\* DocumentProcessor.enhance_image on a colour buffer / on a 2-D buffer
DocChainColor == <<"cvtColor_BGR2GRAY", "adaptiveThreshold", "medianBlur", "cvtColor_GRAY2BGR">>
DocChainGray == <<"copy", "adaptiveThreshold", "medianBlur">>

\* CameraHandler._enhance_frame
VisualChain ==
    <<"bilateralFilter", "filter2D", "cvtColor_BGR2LAB", "split", "CLAHE", "merge",
      "cvtColor_LAB2BGR">>

\* CameraHandler._enhance_for_document
CaptureDocChain ==
    <<"cvtColor_BGR2GRAY", "GaussianBlur", "adaptiveThreshold", "cvtColor_GRAY2BGR">>

\* the value that stands for "the call raised an exception"
Raised == [kind |-> "raised", w |-> 0, h |-> 0, ch |-> 0, hist |-> <<>>]

---------------------------------------------------------------------------
\* Point ordering and the size of the rectified buffer

\* an argmin that returns the last index of a tied minimum
argmin_last(f) ==
    CHOOSE i \in DOMAIN f :
        /\ \A j \in DOMAIN f : f[j] >= f[i]
        /\ \A j \in DOMAIN f : j > i => f[j] > f[i]

\* np.argmin / np.argmax over the four values: the first index of the extreme
argmin(f) ==
    CHOOSE i \in DOMAIN f :
        /\ \A j \in DOMAIN f : f[j] >= f[i]
        /\ \A j \in DOMAIN f : j < i => f[j] > f[i]

argmax(f) ==
    CHOOSE i \in DOMAIN f :
        /\ \A j \in DOMAIN f : f[j] <= f[i]
        /\ \A j \in DOMAIN f : j < i => f[j] < f[i]

\* pts.sum(axis=1) and np.diff(pts, axis=1): x + y and y - x of each point
PointSums(pts) == [i \in DOMAIN pts |-> pts[i][1] + pts[i][2]]
PointDiffs(pts) == [i \in DOMAIN pts |-> pts[i][2] - pts[i][1]]

\* a plausible slip: the top-right corner read from the caller's order
order_points_first(pts) ==
    <<pts[argmin(PointSums(pts))], pts[1],
      pts[argmax(PointSums(pts))], pts[argmax(PointDiffs(pts))]>>

\* the corners on the second diagonal taken from x - y as if it were y - x
order_points_swapped(pts) ==
    <<pts[argmin(PointSums(pts))], pts[argmax(PointDiffs(pts))],
      pts[argmax(PointSums(pts))], pts[argmin(PointDiffs(pts))]>>

\* rect = (tl, tr, br, bl)
order_points(pts) ==
    <<pts[argmin(PointSums(pts))], pts[argmin(PointDiffs(pts))],
      pts[argmax(PointSums(pts))], pts[argmax(PointDiffs(pts))]>>

\* a width taken from the shorter of the two edges
maxWidth_min(rect) ==
    IF ISqrt(Dist2(rect[3], rect[4])) <= ISqrt(Dist2(rect[2], rect[1]))
    THEN ISqrt(Dist2(rect[3], rect[4]))
    ELSE ISqrt(Dist2(rect[2], rect[1]))

\* maxWidth = max(int(widthA), int(widthB)) with widthA = |br - bl|, widthB = |tr - tl|
maxWidth(rect) == Max(ISqrt(Dist2(rect[3], rect[4])), ISqrt(Dist2(rect[2], rect[1])))

\* maxHeight = max(int(heightA), int(heightB)) with heightA = |tr - br|, heightB = |tl - bl|
maxHeight(rect) == Max(ISqrt(Dist2(rect[2], rect[3])), ISqrt(Dist2(rect[1], rect[4])))

\* the destination corners handed to cv2.getPerspectiveTransform
dstPoints(w, h) == <<<<0, 0>>, <<w - 1, 0>>, <<w - 1, h - 1>>, <<0, h - 1>>>>

\* a warp that rejects an empty dsize instead of falling back to the source size
warpPerspective_strict(image, dsize) ==
    IF IsEmpty(image) \/ dsize[1] <= 0 \/ dsize[2] <= 0
    THEN Raised
    ELSE Buf(dsize[1], dsize[2], image.ch, image.hist \o <<"warpPerspective">>)

\* cv2.warpPerspective(image, M, dsize): raises on an empty source; an empty
\* dsize (width <= 0 or height <= 0) makes the output as large as the source;
\* a singular M is inverted to the zero matrix, it does not raise
warpPerspective(image, dsize) ==
    IF IsEmpty(image)
    THEN Raised
    ELSE IF dsize[1] <= 0 \/ dsize[2] <= 0
         THEN Buf(image.w, image.h, image.ch, image.hist \o <<"warpPerspective">>)
         ELSE Buf(dsize[1], dsize[2], image.ch, image.hist \o <<"warpPerspective">>)

\* the geometry correct_perspective computes before it warps
RectifyGeometry(contour) ==
    LET rect == order_points(contour)
    IN  [rect |-> rect, maxWidth |-> maxWidth(rect), maxHeight |-> maxHeight(rect),
         dst |-> dstPoints(maxWidth(rect), maxHeight(rect))]

NoGeometry == [rect |-> <<>>, maxWidth |-> -1, maxHeight |-> -1, dst |-> <<>>]

correct_perspective(image, contour) ==
    LET g == RectifyGeometry(contour)
    IN  warpPerspective(image, <<g.maxWidth, g.maxHeight>>)

---------------------------------------------------------------------------
\* Enhancement

\* l, a, b = cv2.split(lab): each plane with the operations applied to it since
SplitPlanes ==
    <<[plane |-> "l", ops |-> <<>>], [plane |-> "a", ops |-> <<>>],
      [plane |-> "b", ops |-> <<>>]>>

\* clahe.apply(plane)
ClaheApply(p) == [plane |-> p.plane, ops |-> Append(p.ops, "CLAHE")]

\* a contrast step that equalizes the chrominance planes too
MergedPlanes_all(frame) ==
    IF IsEmpty(frame) \/ frame.ch # 3
    THEN <<>>
    ELSE <<ClaheApply(SplitPlanes[1]), ClaheApply(SplitPlanes[2]), ClaheApply(SplitPlanes[3])>>

\* the planes _enhance_frame hands to cv2.merge (none when an earlier step raised)
MergedPlanes(frame) ==
    IF IsEmpty(frame) \/ frame.ch # 3
    THEN <<>>
    ELSE <<ClaheApply(SplitPlanes[1]), SplitPlanes[2], SplitPlanes[3]>>

\* CameraHandler._enhance_frame: any exception is swallowed and the frame returned
_enhance_frame(frame) ==
    IF IsEmpty(frame) \/ frame.ch # 3
    THEN frame
    ELSE Buf(frame.w, frame.h, 3, frame.hist \o VisualChain)

\* CameraHandler._enhance_for_document on a buffer of any shape: any
\* exception is swallowed and the frame returned
_enhance_for_document_buffer(frame) ==
    IF CvtBGR2GRAYRaises(frame)
    THEN frame
    ELSE Buf(frame.w, frame.h, 3, frame.hist \o CaptureDocChain)

\* brightness, contrast and sharpness factors, in tenths (10 is the default 1.0)
Factors == {10, 15}

\* the PIL enhancers apply_adjustments runs for the given factors
AdjustChain(brightness, contrast, sharpness) ==
    (IF brightness # 10 THEN <<"Brightness">> ELSE <<>>)
    \o (IF contrast # 10 THEN <<"Contrast">> ELSE <<>>)
    \o (IF sharpness # 10 THEN <<"Sharpness">> ELSE <<>>)

\* DocumentProcessor.apply_adjustments: to RGB, the PIL enhancers, back to
\* BGR; any exception (None has no shape, cvtColor raises on an empty array)
\* is swallowed and the image returned
apply_adjustments(img, brightness, contrast, sharpness) ==
    IF IsEmpty(img)
    THEN img
    ELSE Buf(img.w, img.h, 3,
             img.hist \o <<IF img.ch = 1 THEN "cvtColor_GRAY2RGB" ELSE "cvtColor_BGR2RGB",
                           "fromarray">>
                      \o AdjustChain(brightness, contrast, sharpness)
                      \o <<"array", "cvtColor_RGB2BGR">>)

\* process_document enhancing with the visual chain of the camera preview
enhance_image_visual(image) ==
    IF IsEmpty(image) \/ image.ch # 3
    THEN Raised
    ELSE Buf(image.w, image.h, 3, image.hist \o VisualChain)

\* an enhance_image that forgets to convert the binarized buffer back to BGR
enhance_image_gray(image) ==
    IF IsEmpty(image) \/ (image.ch # 1 /\ CvtBGR2GRAYRaises(image))
    THEN Raised
    ELSE Buf(image.w, image.h, 1, image.hist \o DocChainGray)

\* an enhance_image that filters the caller's buffer in place and returns it
enhance_image_inplace(image) ==
    IF image.kind # "ndarray" \/ IsEmpty(image) \/ (image.ch # 1 /\ CvtBGR2GRAYRaises(image))
    THEN Raised
    ELSE image

\* DocumentProcessor.enhance_image: Raised stands for an exception that leaves it
enhance_image(image) ==
    IF image.kind # "ndarray"
    THEN Raised
    ELSE IF image.ch # 1
         THEN IF CvtBGR2GRAYRaises(image)
              THEN Raised
              ELSE Buf(image.w, image.h, 3, image.hist \o DocChainColor)
         ELSE IF IsEmpty(image)
              THEN Raised
              ELSE Buf(image.w, image.h, 1, image.hist \o DocChainGray)

---------------------------------------------------------------------------
\* Preprocessing and contour detection

\* preprocess_image: the dilated edge map, or an exception from cvtColor
preprocess_image(image) ==
    IF CvtBGR2GRAYRaises(image)
    THEN Raised
    ELSE Buf(image.w, image.h, 1, image.hist \o PreprocessChain)

\* approximations cv2.approxPolyDP can return for one contour, in contour order
QuadSquare == <<<<0, 0>>, <<2, 0>>, <<2, 2>>, <<0, 2>>>>
QuadTurned == <<<<2, 0>>, <<2, 2>>, <<0, 2>>, <<0, 0>>>>
QuadSkew == <<<<1, 0>>, <<2, 2>>, <<1, 3>>, <<0, 1>>>>
QuadTall == <<<<0, 3>>, <<0, 0>>, <<1, 1>>, <<1, 2>>>>
QuadFlat == <<<<0, 0>>, <<3, 0>>, <<2, 1>>, <<1, 1>>>>
Triangle == <<<<0, 0>>, <<2, 0>>, <<0, 2>>>>
Pentagon == <<<<0, 0>>, <<2, 0>>, <<2, 2>>, <<1, 3>>, <<0, 2>>>>

ApproxSamples == {QuadSquare, QuadTurned, QuadSkew, QuadTall, QuadFlat, Triangle, Pentagon}

\* a contour as detect_document_contour sees it: its enclosed area and the
\* polygon approxPolyDP gives for it
Contours == [area : 1..MaxArea, approx : ApproxSamples]

ContourLists == SeqsUpTo(Contours, MaxContours)

\* the contours of the ranking runs: two area levels (equal and different
\* areas both occur), two quadrilaterals that can be told apart, one triangle
RankAreas == {1, 2}
RankShapes == {QuadSquare, QuadSkew, Triangle}
RankContours == [area : RankAreas, approx : RankShapes]
RankLists == SeqsUpTo(RankContours, MaxRanked)

\* how many contours detect_document_contour examines (cnts[:5])
TopContours == 5

NoContour == <<>>

RECURSIVE SortByAreaDesc(_)
\* sorted(cnts, key=cv2.contourArea, reverse=True): stable, equal areas keep their order
SortByAreaDesc(cs) ==
    IF cs = <<>>
    THEN <<>>
    ELSE LET front == SortByAreaDesc(SubSeq(cs, 1, Len(cs) - 1))
             x == cs[Len(cs)]
             k == Cardinality({i \in 1..Len(front) : front[i].area >= x.area})
         IN  SubSeq(front, 1, k) \o <<x>> \o SubSeq(front, k + 1, Len(front))

\* a search that examines every contour, not only the largest five
detect_document_contour_all(cs) ==
    LET sorted == SortByAreaDesc(cs)
        hits == {i \in 1..Len(sorted) : Len(sorted[i].approx) = 4}
    IN  IF hits = {}
        THEN NoContour
        ELSE sorted[CHOOSE i \in hits : \A j \in hits : i <= j].approx

\* a search that examines the contours in the order findContours reported them
detect_document_contour_unsorted(cs) ==
    LET top == SubSeq(cs, 1, IF Len(cs) < TopContours THEN Len(cs) ELSE TopContours)
        hits == {i \in 1..Len(top) : Len(top[i].approx) = 4}
    IN  IF hits = {}
        THEN NoContour
        ELSE top[CHOOSE i \in hits : \A j \in hits : i <= j].approx

\* a search that puts the approximation in canonical order before returning it
detect_document_contour_ordered(cs) ==
    LET sorted == SortByAreaDesc(cs)
        top == SubSeq(sorted, 1, IF Len(sorted) < TopContours THEN Len(sorted) ELSE TopContours)
        hits == {i \in 1..Len(top) : Len(top[i].approx) = 4}
    IN  IF hits = {}
        THEN NoContour
        ELSE order_points(top[CHOOSE i \in hits : \A j \in hits : i <= j].approx)

detect_document_contour(cs) ==
    LET sorted == SortByAreaDesc(cs)
        top == SubSeq(sorted, 1, IF Len(sorted) < TopContours THEN Len(sorted) ELSE TopContours)
        hits == {i \in 1..Len(top) : Len(top[i].approx) = 4}
    IN  IF hits = {}
        THEN NoContour
        ELSE top[CHOOSE i \in hits : \A j \in hits : i <= j].approx

---------------------------------------------------------------------------
\* Contour points and quadrilaterals

Grid == (0..MaxX) \X (0..MaxY)

PointLess(p, q) == p[1] < q[1] \/ (p[1] = q[1] /\ p[2] < q[2])

\* every set of four distinct grid points, written once, in increasing order
PointSets ==
    {t \in [1..4 -> Grid] : \A i \in 1..3 : PointLess(t[i], t[i + 1])}

Perms4 == {p \in [1..4 -> 1..4] : \A i, j \in 1..4 : p[i] = p[j] => i = j}

Permuted(t, p) == [i \in 1..4 |-> t[p[i]]]

\* z component of (b - a) x (c - b)
Cross(a, b, c) == (b[1] - a[1]) * (c[2] - b[2]) - (b[2] - a[2]) * (c[1] - b[1])

\* the four points are the corners of a convex quadrilateral of positive area:
\* walked in some order, every turn is a strict left turn
IsConvexQuad(t) ==
    \E p \in Perms4 :
        \A i \in 1..4 :
            Cross(t[p[i]], t[p[(i % 4) + 1]], t[p[((i + 1) % 4) + 1]]) > 0

\* the four points are listed as a walk around a convex quadrilateral of
\* positive area, in either direction
InContourOrder(t) ==
    \/ \A i \in 1..4 : Cross(t[i], t[(i % 4) + 1], t[((i + 1) % 4) + 1]) > 0
    \/ \A i \in 1..4 : Cross(t[i], t[(i % 4) + 1], t[((i + 1) % 4) + 1]) < 0

\* each extreme of x + y and of y - x is attained by exactly one point
UniqueExtremes(t) ==
    LET s == PointSums(t)
        d == PointDiffs(t)
        Once(f, i) == \A j \in 1..4 : j # i => f[j] # f[i]
    IN  /\ Once(s, argmin(s)) /\ Once(s, argmax(s))
        /\ Once(d, argmin(d)) /\ Once(d, argmax(d))

---------------------------------------------------------------------------
\* Frames and the sharpness score

\* rows and columns of a camera frame in the model
FrameShape == <<1, 2>>

FramePixels == (1..FrameShape[1]) \X (1..FrameShape[2])

GrayLevels == {0, 1, 2}

\* a frame is its grey value per pixel (a BGR frame with B = G = R, which
\* cv2.cvtColor(frame, COLOR_BGR2GRAY) maps to that value)
FrameSet == [FramePixels -> GrayLevels]

\* the frames the camera delivers during a burst
CameraFrames == {f \in FrameSet : f[<<1, 1>>] = 0 \/ f[<<1, 1>>] = f[<<1, 2>>]}

\* BORDER_REFLECT_101 for a 1-based index p into a dimension of length len
Reflect101(p, len) ==
    IF len = 1 THEN 1
    ELSE IF p < 1 THEN 2 - p
    ELSE IF p > len THEN 2 * len - p
    ELSE p

At(f, r, c) == f[<<Reflect101(r, FrameShape[1]), Reflect101(c, FrameShape[2])>>]

\* cv2.Laplacian(gray, CV_64F) with the default aperture: kernel 0 1 0 / 1 -4 1 / 0 1 0
Laplacian(f) ==
    [p \in FramePixels |->
        At(f, p[1] - 1, p[2]) + At(f, p[1] + 1, p[2]) + At(f, p[1], p[2] - 1)
        + At(f, p[1], p[2] + 1) - 4 * f[p]]

RECURSIVE SumOver(_, _)
SumOver(g, S) ==
    IF S = {} THEN 0
    ELSE LET x == CHOOSE x \in S : TRUE IN g[x] + SumOver(g, S \ {x})

\* .var() of the Laplacian, times the square of the pixel count (the same
\* factor for every frame of a burst): n * sum(x^2) - (sum x)^2
LaplacianVariance(f) ==
    LET lap == Laplacian(f)
        sq == [p \in FramePixels |-> lap[p] * lap[p]]
        n == Cardinality(FramePixels)
    IN  n * SumOver(sq, FramePixels) - SumOver(lap, FramePixels) * SumOver(lap, FramePixels)

\* a comparison that lets a later frame of equal score replace the best one
Sharper_ge(variance, max_variance) == variance >= max_variance

\* if variance > max_variance
Sharper(variance, max_variance) == variance > max_variance

RECURSIVE SelectLoop(_, _)
\* max_variance and the index of best_frame after the first k frames of the loop
SelectLoop(frames, k) ==
    IF k = 0
    THEN [max_variance |-> 0, best |-> 1]
    ELSE LET prev == SelectLoop(frames, k - 1)
             variance == LaplacianVariance(frames[k])
         IN  IF Sharper(variance, prev.max_variance)
             THEN [max_variance |-> variance, best |-> k]
             ELSE prev

NoFrame == <<>>

\* the selector was not called
NotCalled == [kind |-> "not called", index |-> 0, frame |-> NoFrame]

\* best_frame = frames[0] on an empty list raises IndexError
_select_sharpest_frame(frames) ==
    IF frames = <<>>
    THEN [kind |-> "raised IndexError", index |-> 0, frame |-> NoFrame]
    ELSE LET best == SelectLoop(frames, Len(frames)).best
         IN  [kind |-> "frame", index |-> best, frame |-> frames[best]]

\* how many frames capture_high_quality reads
BurstSize == 5

CapNone == [kind |-> "None", frame |-> NoFrame, hist |-> <<>>]

\* what self.get_frame() returns: a copy of current_frame, or None
GetFrameResult == [kind |-> "get_frame()", frame |-> NoFrame, hist |-> <<>>]

\* CameraHandler._enhance_for_document on a frame the camera delivered
_enhance_for_document(frame) == [kind |-> "ndarray", frame |-> frame, hist |-> CaptureDocChain]

---------------------------------------------------------------------------
\* Document-mode enhancement, pixel by pixel, on one-row buffers

\* the 8-bit values a pixel of these buffers takes
PixelLevels == {0, 1, 3, 100, 255}

\* a one-row buffer: px is the row of grey values, ch = 3 is a BGR buffer with
\* B = G = R (cv2.cvtColor(..., COLOR_BGR2GRAY) gives that value back), ch = 1
\* a 2-D array; px = <<>> is an empty array
NoneRow == [kind |-> "None", ch |-> 0, px |-> <<>>]

Row(ch, px) == [kind |-> "ndarray", ch |-> ch, px |-> px]

Rows == {NoneRow} \cup {Row(ch, px) : ch \in {1, 3}, px \in SeqsUpTo(PixelLevels, MaxStrip)}

RaisedRow == [kind |-> "raised", ch |-> 0, px |-> <<>>]

\* BORDER_REPLICATE: index p into a row of len pixels
Replicate(p, len) == IF p < 1 THEN 1 ELSE IF p > len THEN len ELSE p

RECURSIVE ReflectInto(_, _)
\* BORDER_REFLECT_101 (cv2.borderInterpolate), repeated until p is inside
ReflectInto(p, len) ==
    IF len = 1 THEN 1
    ELSE IF p < 1 THEN ReflectInto(2 - p, len)
    ELSE IF p > len THEN ReflectInto(2 * len - p, len)
    ELSE p

\* the 5-tap Gaussian of cv2.GaussianBlur(gray, (5, 5), 0), in sixteenths
Kernel5 == <<1, 4, 6, 4, 1>>

\* the 11-tap Gaussian (sigma 2.0) behind ADAPTIVE_THRESH_GAUSSIAN_C with
\* block size 11, in 256ths
Kernel11 == <<2, 7, 17, 31, 45, 52, 45, 31, 17, 7, 2>>

\* cv2.GaussianBlur(gray, (5, 5), 0) on a one-row image: the rows above and
\* below are reflections of the row itself, the result is rounded to 8 bits
GaussianBlur(px) ==
    [i \in 1..Len(px) |->
        (SumOver([k \in 1..5 |-> Kernel5[k] * px[ReflectInto(i + k - 3, Len(px))]], 1..5)
            + 8) \div 16]

\* the Gaussian-weighted neighbourhood mean adaptiveThreshold compares with
\* (BORDER_REPLICATE, rounded to 8 bits)
LocalMean(px) ==
    [i \in 1..Len(px) |->
        (SumOver([k \in 1..11 |-> Kernel11[k] * px[Replicate(i + k - 6, Len(px))]], 1..11)
            + 128) \div 256]

\* the constant C of cv2.adaptiveThreshold(..., 11, 2)
ThreshC == 2

\* THRESH_BINARY_INV in place of THRESH_BINARY
adaptiveThreshold_inv(px) ==
    [i \in 1..Len(px) |-> IF px[i] > LocalMean(px)[i] - ThreshC THEN 0 ELSE 255]

\* the constant added to the mean instead of subtracted
adaptiveThreshold_plus(px) ==
    [i \in 1..Len(px) |-> IF px[i] > LocalMean(px)[i] + ThreshC THEN 255 ELSE 0]

\* cv2.adaptiveThreshold(src, 255, ADAPTIVE_THRESH_GAUSSIAN_C, THRESH_BINARY, 11, 2)
adaptiveThreshold(px) ==
    [i \in 1..Len(px) |-> IF px[i] > LocalMean(px)[i] - ThreshC THEN 255 ELSE 0]

Median3(a, b, c) ==
    IF (a <= b /\ b <= c) \/ (c <= b /\ b <= a) THEN b
    ELSE IF (b <= a /\ a <= c) \/ (c <= a /\ a <= b) THEN a
    ELSE c

\* cv2.medianBlur(src, 3) on a one-row image (BORDER_REPLICATE): the median of
\* a pixel and its two neighbours
medianBlur(px) ==
    [i \in 1..Len(px) |->
        Median3(px[Replicate(i - 1, Len(px))], px[i], px[Replicate(i + 1, Len(px))])]

\* the try block of _enhance_for_document cannot run on this buffer
CaptureDocFails(frame) == frame.kind # "ndarray" \/ frame.px = <<>> \/ frame.ch # 3

\* CameraHandler._enhance_for_document on a one-row buffer: grey, blur,
\* threshold, back to BGR; any exception is swallowed and the frame returned
_enhance_for_document_pixels(frame) ==
    IF CaptureDocFails(frame)
    THEN frame
    ELSE Row(3, adaptiveThreshold(GaussianBlur(frame.px)))

\* DocumentProcessor.enhance_image on a one-row buffer: grey (or a copy),
\* threshold, median, back to BGR for a colour buffer; exceptions leave it
enhance_image_pixels(b) ==
    IF b.kind # "ndarray" \/ b.px = <<>>
    THEN RaisedRow
    ELSE Row(b.ch, medianBlur(adaptiveThreshold(b.px)))

---------------------------------------------------------------------------
\* State

VARIABLES
    \* one call of DocumentProcessor.process_document
    pc,                \* where the call stands
    image,             \* the caller's buffer
    preprocessed,      \* the edge map
    cnts,              \* what cv2.findContours reported
    document_contour,  \* the 4-point approximation, or NoContour
    geometry,          \* rect, maxWidth, maxHeight, dst of correct_perspective
    corrected,         \* the warped buffer
    result,            \* what process_document returns
    calls              \* the calls made so far, each with the buffer it was given

VARIABLES
    \* order_points and the size computation of correct_perspective on one contour
    gpc,               \* "input", "permuted", "ordered", "sized"
    pts,               \* four contour points
    pts2,              \* the same four points in another order
    rect,              \* order_points(pts2)
    rect_ref,          \* order_points(pts)
    size,              \* (maxWidth, maxHeight) computed from rect
    gdst               \* the destination corners computed from the size

VARIABLES
    \* CameraHandler
    cpc,               \* where capture_high_quality stands
    is_active,
    camera,            \* "None", "open", or "closed" (an object that is not opened)
    reads,             \* iterations of the burst loop done
    frames,            \* the list the selector is given
    sel,               \* what _select_sharpest_frame returned or raised
    cap_result         \* what capture_high_quality returned

VARIABLES
    \* detect_document_contour called on its own
    kpc,               \* "input", "found", "searched"
    kcnts,             \* the contours cv2.findContours reported
    kquad              \* what detect_document_contour returned

VARIABLES
    \* one call of a document-mode enhancement on a one-row buffer
    xpc,               \* "idle", "input", "enhanced"
    xfn,               \* the function called
    xin,               \* the caller's buffer
    xsmooth,           \* the row handed to cv2.adaptiveThreshold
    xthresh,           \* the row cv2.adaptiveThreshold returned
    xout               \* what the function returned

VARIABLES
    \* one call of an enhancement transform on a buffer of any shape
    tpc,               \* "idle", "input", "returned"
    tfn,               \* the transform called, with its arguments
    tin,               \* the caller's buffer
    tplanes,           \* the planes _enhance_frame merged
    tout               \* what the transform returned

VARIABLES
    \* DocumentScannerApp: the page list and the image being edited
    scanned_pages,         \* the list of page dicts
    selected_page_index,   \* 0-based, NoIndex for None
    current_image,
    processed_image,
    workers,               \* the threads started by auto_process
    viewed,                \* the page dict view_page opened for editing, while it is in the list
    status_var,            \* the status line, as far as it speaks of the PDF
    messagebox,            \* the last dialog shown by generate_pdf
    pdf_returned           \* what the last create_pdf call returned

VARIABLES
    \* the capture thread and the thread that calls the CameraHandler
    upc,                   \* "idle", or "join" inside stop_camera
    ucall,                 \* who called stop_camera, and what it holds
    current_frame,
    capture_thread,        \* the Thread object start_camera made last, 0 for None
    loops,                 \* where each capture thread stands in _capture_loop
    is_camera_active       \* DocumentScannerApp.is_camera_active

docVars ==
    <<pc, image, preprocessed, cnts, document_contour, geometry, corrected, result, calls>>

geomVars == <<gpc, pts, pts2, rect, rect_ref, size, gdst>>

camVars == <<cpc, is_active, camera, reads, frames, sel, cap_result>>

rankVars == <<kpc, kcnts, kquad>>

pixVars == <<xpc, xfn, xin, xsmooth, xthresh, xout>>

xfVars == <<tpc, tfn, tin, tplanes, tout>>

appVars ==
    <<scanned_pages, selected_page_index, current_image, processed_image, workers, viewed,
      status_var, messagebox, pdf_returned>>

thrVars == <<upc, ucall, current_frame, capture_thread, loops, is_camera_active>>

uiVars == <<appVars, thrVars>>

auxVars == <<rankVars, pixVars, xfVars, uiVars>>

vars == <<docVars, geomVars, camVars, auxVars>>

Called(fn, buf) == [fn |-> fn, arg |-> buf.hist, shape |-> <<buf.w, buf.h, buf.ch>>]

CallNames == [i \in DOMAIN calls |-> calls[i].fn]

---------------------------------------------------------------------------
\* process_document, one action per stage

DocInit ==
    /\ pc = "idle"
    /\ image = None
    /\ preprocessed = None
    /\ cnts = <<>>
    /\ document_contour = NoContour
    /\ geometry = NoGeometry
    /\ corrected = None
    /\ result = None
    /\ calls = <<>>

\* a caller invokes process_document(img)
Call(img) ==
    /\ pc \in {"idle", "done"}
    /\ pc' = "Preprocessing"
    /\ image' = img
    /\ preprocessed' = None
    /\ cnts' = <<>>
    /\ document_contour' = NoContour
    /\ geometry' = NoGeometry
    /\ corrected' = None
    /\ result' = None
    /\ calls' = <<>>
    /\ UNCHANGED <<geomVars, camVars, auxVars>>

\* after Preprocessing: the next stage of the try block, or the except branch
AfterPreprocess(out) == IF out = Raised THEN "done" ELSE "ContourSearch"

\* 1. preprocessed = self.preprocess_image(image)
Preprocess ==
    /\ pc = "Preprocessing"
    /\ calls' = Append(calls, Called("preprocess_image", image))
    /\ LET out == preprocess_image(image)
       IN  /\ preprocessed' = IF out = Raised THEN None ELSE out
           /\ pc' = AfterPreprocess(out)
    /\ UNCHANGED <<image, cnts, document_contour, geometry, corrected, result>>
    /\ UNCHANGED <<geomVars, camVars, auxVars>>

\* a search that is run again from the start when it finds no contour
AfterContourSearch_retry(found) == IF found # NoContour THEN "Rectify" ELSE "Preprocessing"

\* after ContourSearch: rectify when a contour was found, else the fallback
AfterContourSearch(found) == IF found # NoContour THEN "Rectify" ELSE "EnhanceFallback"

\* 2. document_contour = self.detect_document_contour(preprocessed)
DetectContour ==
    /\ pc = "ContourSearch"
    /\ \E cs \in ContourLists :
          /\ cnts' = cs
          /\ document_contour' = detect_document_contour(cs)
          /\ pc' = AfterContourSearch(detect_document_contour(cs))
    /\ calls' = Append(calls, Called("detect_document_contour", preprocessed))
    /\ UNCHANGED <<image, preprocessed, geometry, corrected, result>>
    /\ UNCHANGED <<geomVars, camVars, auxVars>>

\* rectifying the edge map instead of the photograph
RectifySource_edges == preprocessed

\* the buffer process_document hands to correct_perspective
RectifySource == image

\* 3. corrected = self.correct_perspective(image, document_contour)
Rectify ==
    /\ pc = "Rectify"
    /\ geometry' = RectifyGeometry(document_contour)
    /\ LET out == correct_perspective(RectifySource, document_contour)
       IN  /\ corrected' = IF out = Raised THEN None ELSE out
           /\ pc' = IF out = Raised THEN "done" ELSE "Enhance"
    /\ calls' = calls \o <<Called("correct_perspective", RectifySource),
                           Called("order_points", RectifySource),
                           Called("getPerspectiveTransform", RectifySource),
                           Called("warpPerspective", RectifySource)>>
    /\ UNCHANGED <<image, preprocessed, cnts, document_contour, result>>
    /\ UNCHANGED <<geomVars, camVars, auxVars>>

\* 4. enhanced = self.enhance_image(corrected); return enhanced
EnhanceRectified ==
    /\ pc = "Enhance"
    /\ LET out == enhance_image(corrected)
       IN  result' = IF out = Raised THEN None ELSE out
    /\ pc' = "done"
    /\ calls' = Append(calls, Called("enhance_image", corrected))
    /\ UNCHANGED <<image, preprocessed, cnts, document_contour, geometry, corrected>>
    /\ UNCHANGED <<geomVars, camVars, auxVars>>

\* else: return self.enhance_image(image)
EnhanceFallback ==
    /\ pc = "EnhanceFallback"
    /\ LET out == enhance_image(image)
       IN  result' = IF out = Raised THEN None ELSE out
    /\ pc' = "done"
    /\ calls' = Append(calls, Called("enhance_image", image))
    /\ UNCHANGED <<image, preprocessed, cnts, document_contour, geometry, corrected>>
    /\ UNCHANGED <<geomVars, camVars, auxVars>>

Next ==
    \/ \E img \in Images : Call(img)
    \/ Preprocess
    \/ DetectContour
    \/ Rectify
    \/ EnhanceRectified
    \/ EnhanceFallback

---------------------------------------------------------------------------
\* order_points and the output size, applied to every contour of the grid

GeomIdle ==
    /\ gpc = "input"
    /\ pts2 = <<>>
    /\ rect = <<>>
    /\ rect_ref = <<>>
    /\ size = <<-1, -1>>
    /\ gdst = <<>>

GeomInit == pts \in PointSets /\ GeomIdle

\* the contour reaches correct_perspective in some order of its points
Permute(p) ==
    /\ gpc = "input"
    /\ pts2' = Permuted(pts, p)
    /\ gpc' = "permuted"
    /\ UNCHANGED <<pts, rect, rect_ref, size, gdst>>
    /\ UNCHANGED <<docVars, camVars, auxVars>>

\* rect = self.order_points(pts)
OrderPoints ==
    /\ gpc = "permuted"
    /\ rect' = order_points(pts2)
    /\ rect_ref' = order_points(pts)
    /\ gpc' = "ordered"
    /\ UNCHANGED <<pts, pts2, size, gdst>>
    /\ UNCHANGED <<docVars, camVars, auxVars>>

\* maxWidth, maxHeight, dst
ComputeSize ==
    /\ gpc = "ordered"
    /\ size' = <<maxWidth(rect), maxHeight(rect)>>
    /\ gdst' = dstPoints(maxWidth(rect), maxHeight(rect))
    /\ gpc' = "sized"
    /\ UNCHANGED <<pts, pts2, rect, rect_ref>>
    /\ UNCHANGED <<docVars, camVars, auxVars>>

GeomNext ==
    \/ \E p \in Perms4 : Permute(p)
    \/ OrderPoints
    \/ ComputeSize

---------------------------------------------------------------------------
\* CameraHandler: capture_high_quality and _select_sharpest_frame

CamInit ==
    /\ cpc = "idle"
    /\ is_active = FALSE
    /\ camera = "None"
    /\ reads = 0
    /\ frames = <<>>
    /\ sel = NotCalled
    /\ cap_result = CapNone

\* start_camera succeeding, seen from the calling thread
StartCamera ==
    /\ cpc \in {"idle", "returned"}
    /\ ~is_active
    /\ camera' = "open"
    /\ is_active' = TRUE
    /\ UNCHANGED <<cpc, reads, frames, sel, cap_result>>
    /\ UNCHANGED <<docVars, geomVars, auxVars>>

\* stop_camera, seen from the calling thread
StopCamera ==
    /\ cpc \in {"idle", "returned"}
    /\ camera = "open"
    /\ is_active' = FALSE
    /\ camera' = "None"
    /\ UNCHANGED <<cpc, reads, frames, sel, cap_result>>
    /\ UNCHANGED <<docVars, geomVars, auxVars>>

\* capture_high_quality up to the burst loop
CaptureBegin ==
    /\ cpc \in {"idle", "returned", "selected"}
    /\ reads' = 0
    /\ frames' = <<>>
    /\ sel' = NotCalled
    /\ cap_result' = CapNone
    /\ cpc' = IF ~is_active \/ camera = "None" THEN "returned" ELSE "reading"
    /\ UNCHANGED <<is_active, camera>>
    /\ UNCHANGED <<docVars, geomVars, auxVars>>

\* one iteration of the burst loop: ret, frame = self.camera.read()
CaptureRead ==
    /\ cpc = "reading"
    /\ reads < BurstSize
    /\ reads' = reads + 1
    /\ \/ \E f \in CameraFrames : frames' = Append(frames, f)
       \/ frames' = frames
    /\ UNCHANGED <<cpc, is_active, camera, sel, cap_result>>
    /\ UNCHANGED <<docVars, geomVars, auxVars>>

\* a burst that is never taken to be empty
BurstEmpty_never(fs) == FALSE

\* if not frames
BurstEmpty(fs) == fs = <<>>

\* after the loop: None for an empty burst, else select and enhance; an
\* exception inside the try block returns self.get_frame()
CaptureFinish ==
    /\ cpc = "reading"
    /\ reads = BurstSize
    /\ IF BurstEmpty(frames)
       THEN /\ cap_result' = CapNone
            /\ sel' = sel
       ELSE /\ sel' = _select_sharpest_frame(frames)
            /\ cap_result' =
                  IF _select_sharpest_frame(frames).kind = "frame"
                  THEN _enhance_for_document(_select_sharpest_frame(frames).frame)
                  ELSE GetFrameResult
    /\ cpc' = "returned"
    /\ UNCHANGED <<is_active, camera, reads, frames>>
    /\ UNCHANGED <<docVars, geomVars, auxVars>>

\* _select_sharpest_frame called on its own with any list of frames
SelectCall(fs) ==
    /\ cpc = "idle"
    /\ frames' = fs
    /\ sel' = _select_sharpest_frame(fs)
    /\ cap_result' = CapNone
    /\ reads' = 0
    /\ cpc' = "selected"
    /\ UNCHANGED <<is_active, camera>>
    /\ UNCHANGED <<docVars, geomVars, auxVars>>

CamNext ==
    \/ StartCamera
    \/ StopCamera
    \/ CaptureBegin
    \/ CaptureRead
    \/ CaptureFinish
    \/ \E fs \in SeqsUpTo(FrameSet, MaxFrames) : SelectCall(fs)

---------------------------------------------------------------------------
\* detect_document_contour on lists of up to MaxRanked contours

RankIdle ==
    /\ kpc = "input"
    /\ kcnts = <<>>
    /\ kquad = NoContour

\* cv2.findContours reports some list of contours
FindContours ==
    /\ kpc = "input"
    /\ \E cs \in RankLists : kcnts' = cs
    /\ kquad' = NoContour
    /\ kpc' = "found"
    /\ UNCHANGED <<docVars, geomVars, camVars, pixVars, xfVars, uiVars>>

\* the sort, the loop over cnts[:5] and the return
SearchContours ==
    /\ kpc = "found"
    /\ kquad' = detect_document_contour(kcnts)
    /\ kpc' = "searched"
    /\ UNCHANGED kcnts
    /\ UNCHANGED <<docVars, geomVars, camVars, pixVars, xfVars, uiVars>>

RankNext ==
    \/ FindContours
    \/ SearchContours

---------------------------------------------------------------------------
\* The document-mode enhancements called on one-row buffers

PixIdle ==
    /\ xpc = "idle"
    /\ xfn = "none"
    /\ xin = NoneRow
    /\ xsmooth = <<>>
    /\ xthresh = <<>>
    /\ xout = NoneRow

\* a caller holds some buffer
GiveRow ==
    /\ xpc = "idle"
    /\ \E b \in Rows : xin' = b
    /\ xpc' = "input"
    /\ UNCHANGED <<xfn, xsmooth, xthresh, xout>>
    /\ UNCHANGED <<docVars, geomVars, camVars, rankVars, xfVars, uiVars>>

\* enhanced = self._enhance_for_document(frame)
CaptureEnhance ==
    /\ xpc = "input"
    /\ xfn' = "_enhance_for_document"
    /\ xsmooth' = IF CaptureDocFails(xin) THEN <<>> ELSE GaussianBlur(xin.px)
    /\ xthresh' = IF CaptureDocFails(xin) THEN <<>> ELSE adaptiveThreshold(GaussianBlur(xin.px))
    /\ xout' = _enhance_for_document_pixels(xin)
    /\ xpc' = "enhanced"
    /\ UNCHANGED xin
    /\ UNCHANGED <<docVars, geomVars, camVars, rankVars, xfVars, uiVars>>

\* self.enhance_image(image)
ProcessorEnhance ==
    /\ xpc = "input"
    /\ xfn' = "enhance_image"
    /\ xsmooth' = IF enhance_image_pixels(xin) = RaisedRow THEN <<>> ELSE xin.px
    /\ xthresh' = IF enhance_image_pixels(xin) = RaisedRow THEN <<>> ELSE adaptiveThreshold(xin.px)
    /\ xout' = enhance_image_pixels(xin)
    /\ xpc' = "enhanced"
    /\ UNCHANGED xin
    /\ UNCHANGED <<docVars, geomVars, camVars, rankVars, xfVars, uiVars>>

PixNext ==
    \/ GiveRow
    \/ CaptureEnhance
    \/ ProcessorEnhance

---------------------------------------------------------------------------
\* The enhancement transforms called on buffers of any shape

XfIdle ==
    /\ tpc = "idle"
    /\ tfn = <<"none">>
    /\ tin = None
    /\ tplanes = <<>>
    /\ tout = None

\* a caller holds some buffer
GiveBuffer ==
    /\ tpc = "idle"
    /\ \E b \in Images : tin' = b
    /\ tpc' = "input"
    /\ UNCHANGED <<tfn, tplanes, tout>>
    /\ UNCHANGED <<docVars, geomVars, camVars, rankVars, pixVars, uiVars>>

\* self._enhance_frame(frame)
CallEnhanceFrame ==
    /\ tpc = "input"
    /\ tfn' = <<"_enhance_frame">>
    /\ tplanes' = MergedPlanes(tin)
    /\ tout' = _enhance_frame(tin)
    /\ tpc' = "returned"
    /\ UNCHANGED tin
    /\ UNCHANGED <<docVars, geomVars, camVars, rankVars, pixVars, uiVars>>

\* self._enhance_for_document(frame)
CallEnhanceForDocument ==
    /\ tpc = "input"
    /\ tfn' = <<"_enhance_for_document">>
    /\ tout' = _enhance_for_document_buffer(tin)
    /\ tpc' = "returned"
    /\ UNCHANGED <<tin, tplanes>>
    /\ UNCHANGED <<docVars, geomVars, camVars, rankVars, pixVars, uiVars>>

\* self.apply_adjustments(image, brightness, contrast, sharpness)
CallApplyAdjustments ==
    /\ tpc = "input"
    /\ \E brightness, contrast, sharpness \in Factors :
          /\ tfn' = <<"apply_adjustments", brightness, contrast, sharpness>>
          /\ tout' = apply_adjustments(tin, brightness, contrast, sharpness)
    /\ tpc' = "returned"
    /\ UNCHANGED <<tin, tplanes>>
    /\ UNCHANGED <<docVars, geomVars, camVars, rankVars, pixVars, uiVars>>

XfNext ==
    \/ GiveBuffer
    \/ CallEnhanceFrame
    \/ CallEnhanceForDocument
    \/ CallApplyAdjustments

---------------------------------------------------------------------------
\* DocumentScannerApp: pages, the image being edited, processing threads, PDF

\* how many pages the list holds at most
MaxPages == 3

\* how many processing threads run at a time
MaxWorkers == 1

\* selected_page_index = None
NoIndex == -1

\* the image files the user can pick
Files == {"a.png", "b.png"}

\* cv2.imread of a readable image file
imread(f) == Buf(ImgW, ImgH, 3, <<f>>)

\* a photograph that no handler has processed or adjusted yet
Unedited(img) == \E f \in Files : img = imread(f)

\* the identities of page dicts
PageIds == 1..MaxPages

\* a page dict: its identity and its image
Page(id, img) == [id |-> id, image |-> img]

Ids(pages) == {pages[i].id : i \in DOMAIN pages}

\* a dict that is none of the dicts alive
NewId ==
    CHOOSE n \in PageIds :
        /\ n \notin Ids(scanned_pages)
        /\ \A m \in PageIds : m \notin Ids(scanned_pages) => n <= m

\* scanned_pages[index]
PageAt(index) == scanned_pages[index + 1]

\* the indices the listbox offers for selection
Selectable == 0..(Len(scanned_pages) - 1)

\* list.pop(index)
pop(pages, index) ==
    [k \in 1..(Len(pages) - 1) |-> IF k < index + 1 THEN pages[k] ELSE pages[k + 1]]

\* list.insert(index, page)
insert(pages, index, page) ==
    [k \in 1..(Len(pages) + 1) |->
        IF k < index + 1 THEN pages[k] ELSE IF k = index + 1 THEN page ELSE pages[k - 1]]

\* pages[i], pages[j] = pages[j], pages[i]
swap(pages, i, j) == [pages EXCEPT ![i + 1] = pages[j + 1], ![j + 1] = pages[i + 1]]

\* what cv2.findContours can report for a photograph
PhotoContours == {<<>>, <<[area |-> 1, approx |-> QuadSquare]>>}

\* self.document_processor.process_document(image)
ProcessResult(img, cs) ==
    LET failed(out) == IF out = Raised THEN None ELSE out
    IN  IF preprocess_image(img) = Raised
        THEN None
        ELSE IF detect_document_contour(cs) = NoContour
             THEN failed(enhance_image(img))
             ELSE IF correct_perspective(img, detect_document_contour(cs)) = Raised
                  THEN None
                  ELSE failed(enhance_image(correct_perspective(img, detect_document_contour(cs))))

\* create_pdf: True when the document was built, False when anything raised
create_pdf(images, writable) == writable /\ \A i \in DOMAIN images : ~IsEmpty(images[i])

\* status_var.set(text): the texts that do not speak of the PDF are not
\* told apart
Status(text) == IF text = "PDF generado" THEN text ELSE "..."

IdleWorker == [pc |-> "idle", source |-> None, processed |-> None]

WorkerIds == 1..MaxWorkers

AppIdle ==
    /\ scanned_pages = <<>>
    /\ selected_page_index = NoIndex
    /\ current_image = None
    /\ processed_image = None
    /\ workers = [w \in WorkerIds |-> IdleWorker]
    /\ viewed = {}
    /\ status_var = Status("Listo")
    /\ messagebox = "none"
    /\ pdf_returned = <<>>

otherVars == <<docVars, geomVars, camVars, rankVars, pixVars, xfVars, thrVars>>

\* open_file with a file chosen that cv2.imread can read
open_file(f) ==
    /\ upc = "idle"
    /\ selected_page_index' = NoIndex
    /\ current_image' = imread(f)
    /\ processed_image' = None
    /\ viewed' = {}
    /\ status_var' = Status("Archivo cargado")
    /\ UNCHANGED <<scanned_pages, workers, messagebox, pdf_returned>>
    /\ UNCHANGED otherVars

\* auto_process: starts a thread on _process_image
auto_process ==
    /\ upc = "idle"
    /\ current_image # None
    /\ Unedited(current_image)
    /\ \E w \in WorkerIds : workers[w].pc = "idle"
    /\ LET w == CHOOSE w \in WorkerIds : workers[w].pc = "idle"
       IN  workers' = [workers EXCEPT ![w] = [pc |-> "started", source |-> None, processed |-> None]]
    /\ status_var' = Status("Procesando imagen...")
    /\ UNCHANGED <<scanned_pages, selected_page_index, current_image, processed_image, viewed,
                   messagebox, pdf_returned>>
    /\ UNCHANGED otherVars

\* _process_image: processed = process_document(self.current_image)
ProcessRead(w) ==
    /\ workers[w].pc = "started"
    /\ \E cs \in PhotoContours :
          workers' = [workers EXCEPT ![w] = [pc |-> "processing", source |-> current_image,
                                             processed |-> ProcessResult(current_image, cs)]]
    /\ UNCHANGED <<scanned_pages, selected_page_index, current_image, processed_image, viewed,
                   status_var, messagebox, pdf_returned>>
    /\ UNCHANGED otherVars

\* _process_image: if processed is not None, self.processed_image = processed;
\* the status line follows through root.after(0, ...)
ProcessStore(w) ==
    /\ workers[w].pc = "processing"
    /\ workers' = [workers EXCEPT ![w] = IdleWorker]
    /\ IF workers[w].processed # None
       THEN /\ processed_image' = workers[w].processed
            /\ status_var' = Status("Imagen procesada exitosamente")
       ELSE /\ processed_image' = processed_image
            /\ status_var' = Status("No se pudo procesar la imagen")
    /\ UNCHANGED <<scanned_pages, selected_page_index, current_image, viewed, messagebox,
                   pdf_returned>>
    /\ UNCHANGED otherVars

\* the image the sliders work on: the page at selected_page_index, else current_image
BaseImage ==
    IF selected_page_index # NoIndex /\ selected_page_index < Len(scanned_pages)
    THEN PageAt(selected_page_index).image
    ELSE current_image

\* the slider callback apply_adjustments, the brightness slider moved
on_apply_adjustments(brightness) ==
    /\ upc = "idle"
    /\ BaseImage # None
    /\ Unedited(BaseImage)
    /\ processed_image' = apply_adjustments(BaseImage, brightness, 10, 10)
    /\ UNCHANGED <<scanned_pages, selected_page_index, current_image, workers, viewed,
                   status_var, messagebox, pdf_returned>>
    /\ UNCHANGED otherVars

\* reset_adjustments
reset_adjustments ==
    /\ upc = "idle"
    /\ processed_image # None
    /\ processed_image' = None
    /\ UNCHANGED <<scanned_pages, selected_page_index, current_image, workers, viewed,
                   status_var, messagebox, pdf_returned>>
    /\ UNCHANGED otherVars

\* add_page, the dialog answered with "Añadir"
add_page ==
    /\ upc = "idle"
    /\ Len(scanned_pages) < MaxPages
    /\ LET image_to_add == IF processed_image # None THEN processed_image ELSE current_image
       IN  /\ image_to_add # None
           /\ scanned_pages' = Append(scanned_pages, Page(NewId, image_to_add))
    /\ status_var' = Status("Página añadida")
    /\ UNCHANGED <<selected_page_index, current_image, processed_image, workers, viewed,
                   messagebox, pdf_returned>>
    /\ UNCHANGED otherVars

\* view_page
view_page(index) ==
    /\ upc = "idle"
    /\ index \in Selectable
    /\ selected_page_index' = index
    /\ current_image' = PageAt(index).image
    /\ processed_image' = None
    /\ viewed' = {PageAt(index).id}
    /\ status_var' = Status("Editando")
    /\ UNCHANGED <<scanned_pages, workers, messagebox, pdf_returned>>
    /\ UNCHANGED otherVars

\* delete_page, confirmed
delete_page(index) ==
    /\ upc = "idle"
    /\ index \in Selectable
    /\ scanned_pages' = pop(scanned_pages, index)
    /\ viewed' = viewed \ {PageAt(index).id}
    /\ status_var' = Status("Página eliminada")
    /\ UNCHANGED <<selected_page_index, current_image, processed_image, workers, messagebox,
                   pdf_returned>>
    /\ UNCHANGED otherVars

\* move_page_up
move_page_up(index) ==
    /\ upc = "idle"
    /\ index \in Selectable
    /\ IF index > 0 /\ index < Len(scanned_pages)
       THEN /\ scanned_pages' = swap(scanned_pages, index, index - 1)
            /\ status_var' = Status("Página movida hacia arriba")
       ELSE UNCHANGED <<scanned_pages, status_var>>
    /\ UNCHANGED <<selected_page_index, current_image, processed_image, workers, viewed,
                   messagebox, pdf_returned>>
    /\ UNCHANGED otherVars

\* move_page_down
move_page_down(index) ==
    /\ upc = "idle"
    /\ index \in Selectable
    /\ IF index < Len(scanned_pages) - 1
       THEN /\ scanned_pages' = swap(scanned_pages, index, index + 1)
            /\ status_var' = Status("Página movida hacia abajo")
       ELSE UNCHANGED <<scanned_pages, status_var>>
    /\ UNCHANGED <<selected_page_index, current_image, processed_image, workers, viewed,
                   messagebox, pdf_returned>>
    /\ UNCHANGED otherVars

\* a duplicate_page that puts the copy at the end of the list
duplicate_page_append(index) ==
    /\ upc = "idle"
    /\ index \in Selectable
    /\ Len(scanned_pages) < MaxPages
    /\ scanned_pages' = Append(scanned_pages, Page(NewId, PageAt(index).image))
    /\ status_var' = Status("Página duplicada")
    /\ UNCHANGED <<selected_page_index, current_image, processed_image, workers, viewed,
                   messagebox, pdf_returned>>
    /\ UNCHANGED otherVars

\* duplicate_page
duplicate_page(index) ==
    /\ upc = "idle"
    /\ index \in Selectable
    /\ Len(scanned_pages) < MaxPages
    /\ scanned_pages' = insert(scanned_pages, index + 1, Page(NewId, PageAt(index).image))
    /\ status_var' = Status("Página duplicada")
    /\ UNCHANGED <<selected_page_index, current_image, processed_image, workers, viewed,
                   messagebox, pdf_returned>>
    /\ UNCHANGED otherVars

\* clear_pages, confirmed
clear_pages ==
    /\ upc = "idle"
    /\ scanned_pages # <<>>
    /\ scanned_pages' = <<>>
    /\ viewed' = {}
    /\ status_var' = Status("Todas las páginas eliminadas")
    /\ UNCHANGED <<selected_page_index, current_image, processed_image, workers, messagebox,
                   pdf_returned>>
    /\ UNCHANGED otherVars

\* update_selected_page, confirmed
update_selected_page ==
    /\ upc = "idle"
    /\ selected_page_index # NoIndex
    /\ selected_page_index < Len(scanned_pages)
    /\ processed_image # None
    /\ scanned_pages' =
          [scanned_pages EXCEPT ![selected_page_index + 1].image = processed_image]
    /\ processed_image' = None
    /\ status_var' = Status("Página actualizada")
    /\ UNCHANGED <<selected_page_index, current_image, workers, viewed, messagebox,
                   pdf_returned>>
    /\ UNCHANGED otherVars

\* new_image_mode
new_image_mode ==
    /\ upc = "idle"
    /\ selected_page_index' = NoIndex
    /\ current_image' = None
    /\ processed_image' = None
    /\ viewed' = {}
    /\ status_var' = Status("Modo nueva imagen")
    /\ UNCHANGED <<scanned_pages, workers, messagebox, pdf_returned>>
    /\ UNCHANGED otherVars

\* generate_pdf with a path chosen: create_pdf never raises, so the try block
\* always runs to its end
generate_pdf(writable) ==
    /\ upc = "idle"
    /\ scanned_pages # <<>>
    /\ LET page_images == [i \in DOMAIN scanned_pages |-> scanned_pages[i].image]
       IN  pdf_returned' = <<create_pdf(page_images, writable)>>
    /\ status_var' = Status("PDF generado")
    /\ messagebox' = "Éxito"
    /\ UNCHANGED <<scanned_pages, selected_page_index, current_image, processed_image, workers,
                   viewed>>
    /\ UNCHANGED otherVars

\* the handlers of the page list, with one file to open
PagesNext ==
    \/ \E f \in {"a.png"} : open_file(f)
    \/ \E b \in Factors \ {10} : on_apply_adjustments(b)
    \/ reset_adjustments
    \/ add_page
    \/ \E index \in Selectable : view_page(index)
    \/ \E index \in Selectable : delete_page(index)
    \/ \E index \in Selectable : move_page_up(index)
    \/ \E index \in Selectable : move_page_down(index)
    \/ \E index \in Selectable : duplicate_page(index)
    \/ clear_pages
    \/ update_selected_page
    \/ new_image_mode

\* automatic processing against the handlers that replace current_image
ProcessNext ==
    \/ \E f \in Files : open_file(f)
    \/ auto_process
    \/ \E w \in WorkerIds : ProcessRead(w)
    \/ \E w \in WorkerIds : ProcessStore(w)
    \/ add_page
    \/ \E index \in Selectable : view_page(index)
    \/ new_image_mode

\* PDF generation from the pages added
PdfNext ==
    \/ \E f \in Files : open_file(f)
    \/ add_page
    \/ \E index \in Selectable : delete_page(index)
    \/ \E index \in Selectable : duplicate_page(index)
    \/ \E writable \in BOOLEAN : generate_pdf(writable)

---------------------------------------------------------------------------
\* CameraHandler: the capture thread against start_camera and stop_camera

\* how many capture threads are alive at a time
MaxThreads == 2

ThreadIds == 1..MaxThreads

ThrIdle ==
    /\ upc = "idle"
    /\ ucall = <<>>
    /\ current_frame = None
    /\ capture_thread = 0
    /\ loops = [t \in ThreadIds |-> "none"]
    /\ is_camera_active = FALSE

\* the variables no camera step touches
farVars == <<docVars, geomVars, rankVars, pixVars, xfVars>>

burstVars == <<cpc, reads, frames, sel, cap_result>>

\* a frame as self.camera.read() delivers it
CameraFrame == Buf(ImgW, ImgH, 3, <<"read">>)

\* self.capture_thread.is_alive()
is_alive(t) == t # 0 /\ loops[t] # "none"

\* threading.Thread(target=self._capture_loop): a thread that is not running
\* and is not the one capture_thread refers to
NewThread ==
    CHOOSE t \in ThreadIds :
        /\ loops[t] = "none" /\ t # capture_thread
        /\ \A u \in ThreadIds : (loops[u] = "none" /\ u # capture_thread) => t <= u

\* get_frame: a copy of current_frame, or None
get_frame == current_frame

\* while self.is_active and self.camera and self.camera.isOpened()
LoopTest(t) ==
    /\ loops[t] = "test"
    /\ loops' = [loops EXCEPT ![t] = IF is_active /\ camera = "open" THEN "read" ELSE "exit"]
    /\ UNCHANGED <<upc, ucall, current_frame, capture_thread, is_camera_active>>
    /\ UNCHANGED <<is_active, camera, burstVars, farVars, appVars>>

ReadOutcomes == {"frame", "no frame", "raised"}

\* ret, frame = self.camera.read(): AttributeError when stop_camera has set
\* self.camera to None, no frame from a released camera
LoopRead(t, outcome) ==
    /\ loops[t] = "read"
    /\ loops' = [loops EXCEPT ![t] =
                    IF camera = "None" THEN "exit"
                    ELSE IF camera = "closed" THEN "test"
                    ELSE IF outcome = "frame" THEN "store"
                    ELSE IF outcome = "no frame" THEN "test"
                    ELSE "exit"]
    /\ UNCHANGED <<upc, ucall, current_frame, capture_thread, is_camera_active>>
    /\ UNCHANGED <<is_active, camera, burstVars, farVars, appVars>>

\* with self.frame_lock: self.current_frame = enhanced_frame.copy()
LoopStore(t) ==
    /\ loops[t] = "store"
    /\ current_frame' = _enhance_frame(CameraFrame)
    /\ loops' = [loops EXCEPT ![t] = "test"]
    /\ UNCHANGED <<upc, ucall, capture_thread, is_camera_active>>
    /\ UNCHANGED <<is_active, camera, burstVars, farVars, appVars>>

\* after the loop: self.is_active = False
LoopExit(t) ==
    /\ loops[t] = "exit"
    /\ is_active' = FALSE
    /\ loops' = [loops EXCEPT ![t] = "none"]
    /\ UNCHANGED <<upc, ucall, current_frame, capture_thread, is_camera_active>>
    /\ UNCHANGED <<camera, burstVars, farVars, appVars>>

StartOutcomes == {"not opened", "no frame", "started"}

\* start_camera: the camera does not open, the test read fails, or the session
\* starts with a new capture thread
start_camera(outcome) ==
    /\ outcome = "started" => \E t \in ThreadIds : loops[t] = "none" /\ t # capture_thread
    /\ camera' = IF outcome = "started" THEN "open" ELSE "closed"
    /\ is_active' = IF outcome = "started" THEN TRUE ELSE is_active
    /\ capture_thread' = IF outcome = "started" THEN NewThread ELSE capture_thread
    /\ loops' = IF outcome = "started" THEN [loops EXCEPT ![NewThread] = "test"] ELSE loops

\* stop_camera up to the join: self.is_active = False, then wait for the thread
StopBegin(caller) ==
    /\ is_active' = FALSE
    /\ upc' = "join"
    /\ ucall' = caller
    /\ UNCHANGED <<camera, current_frame, capture_thread, loops>>

\* stop_camera after the join, which returns when the thread has ended or
\* after 2 seconds: release the camera, clear current_frame
StopEnd ==
    /\ upc = "join"
    /\ camera' = "None"
    /\ current_frame' = None
    /\ upc' = "idle"
    /\ ucall' = <<>>

\* a caller invokes start_camera
CallStartCamera ==
    /\ upc = "idle"
    /\ \E outcome \in StartOutcomes : start_camera(outcome)
    /\ UNCHANGED <<upc, ucall, current_frame, is_camera_active>>
    /\ UNCHANGED <<burstVars, farVars, appVars>>

\* a caller invokes stop_camera
CallStopCamera ==
    /\ upc = "idle"
    /\ StopBegin(<<"stop_camera">>)
    /\ UNCHANGED <<is_camera_active, burstVars, farVars, appVars>>

\* stop_camera returns to its caller
StopCameraReturns ==
    /\ ucall = <<"stop_camera">>
    /\ StopEnd
    /\ UNCHANGED <<is_active, capture_thread, loops, is_camera_active>>
    /\ UNCHANGED <<burstVars, farVars, appVars>>

\* switch_camera: stop_camera when is_active, else straight to start_camera
CallSwitchCamera ==
    /\ upc = "idle"
    /\ IF is_active
       THEN StopBegin(<<"switch_camera">>)
       ELSE /\ \E outcome \in StartOutcomes : start_camera(outcome)
            /\ UNCHANGED <<upc, ucall, current_frame>>
    /\ UNCHANGED <<is_camera_active, burstVars, farVars, appVars>>

\* switch_camera after its stop_camera: return self.start_camera(camera_index)
SwitchCameraRestarts ==
    /\ ucall = <<"switch_camera">>
    /\ upc = "join"
    /\ \E outcome \in StartOutcomes : start_camera(outcome)
    /\ current_frame' = None
    /\ upc' = "idle"
    /\ ucall' = <<>>
    /\ UNCHANGED <<is_camera_active, burstVars, farVars, appVars>>

\* toggle_camera: open the camera when it is off, else close it
toggle_camera ==
    /\ upc = "idle"
    /\ IF ~is_camera_active
       THEN /\ \E outcome \in StartOutcomes :
                  /\ start_camera(outcome)
                  /\ is_camera_active' = (outcome = "started")
            /\ UNCHANGED <<upc, ucall, current_frame>>
       ELSE /\ StopBegin(<<"toggle_camera">>)
            /\ UNCHANGED is_camera_active
    /\ UNCHANGED <<burstVars, farVars, appVars>>

\* toggle_camera after stop_camera: self.is_camera_active = False
toggle_camera_stopped ==
    /\ ucall = <<"toggle_camera">>
    /\ StopEnd
    /\ is_camera_active' = FALSE
    /\ UNCHANGED <<is_active, capture_thread, loops>>
    /\ UNCHANGED <<burstVars, farVars, appVars>>

\* capture_image with a frame stored: frame = get_frame(), then stop_camera
capture_image ==
    /\ upc = "idle"
    /\ is_camera_active
    /\ get_frame # None
    /\ StopBegin(<<"capture_image", get_frame>>)
    /\ UNCHANGED <<is_camera_active, burstVars, farVars, appVars>>

\* capture_image after stop_camera: the frame becomes current_image
capture_image_stopped ==
    /\ upc = "join"
    /\ ucall # <<>>
    /\ ucall[1] = "capture_image"
    /\ StopEnd
    /\ is_camera_active' = FALSE
    /\ selected_page_index' = NoIndex
    /\ current_image' = ucall[2]
    /\ processed_image' = None
    /\ viewed' = {}
    /\ status_var' = Status("Imagen capturada - Cámara cerrada")
    /\ UNCHANGED <<is_active, capture_thread, loops>>
    /\ UNCHANGED <<scanned_pages, workers, messagebox, pdf_returned>>
    /\ UNCHANGED <<burstVars, farVars>>

\* the steps of the capture threads
LoopNext ==
    \/ \E t \in ThreadIds : LoopTest(t)
    \/ \E t \in ThreadIds : \E outcome \in ReadOutcomes : LoopRead(t, outcome)
    \/ \E t \in ThreadIds : LoopStore(t)
    \/ \E t \in ThreadIds : LoopExit(t)

\* any sequence of calls on one CameraHandler, against its capture threads
HandlerNext ==
    \/ CallStartCamera
    \/ CallStopCamera
    \/ StopCameraReturns
    \/ CallSwitchCamera
    \/ SwitchCameraRestarts
    \/ LoopNext

\* the application's camera button and capture button, against the threads
CamAppNext ==
    \/ toggle_camera
    \/ toggle_camera_stopped
    \/ capture_image
    \/ capture_image_stopped
    \/ LoopNext

---------------------------------------------------------------------------
\* Specifications

Init ==
    /\ DocInit /\ pts = <<>> /\ GeomIdle /\ CamInit /\ RankIdle /\ PixIdle /\ XfIdle
    /\ AppIdle /\ ThrIdle

\* calls of process_document
Spec == Init /\ [][Next]_vars

GeomSpecInit ==
    /\ DocInit /\ GeomInit /\ CamInit /\ RankIdle /\ PixIdle /\ XfIdle
    /\ AppIdle /\ ThrIdle

\* order_points and the size computation over every contour of the grid
SpecGeom == GeomSpecInit /\ [][GeomNext]_vars

\* the camera's burst capture and the sharpness selector
SpecCam == Init /\ [][CamNext]_vars

\* contour detection over every list of up to MaxRanked contours
SpecContour == Init /\ [][RankNext]_vars

\* the document-mode enhancements over every one-row buffer
SpecPixels == Init /\ [][PixNext]_vars

\* the enhancement transforms over every shape of buffer
SpecTransform == Init /\ [][XfNext]_vars

\* the application's handlers for the page list
SpecPages == Init /\ [][PagesNext]_vars

\* the application's processing threads
SpecProcess == Init /\ [][ProcessNext]_vars

\* the application's PDF generation
SpecPdf == Init /\ [][PdfNext]_vars

\* the CameraHandler's calls and its capture threads
SpecHandler == Init /\ [][HandlerNext]_vars

\* the application's use of the camera
SpecCamApp == Init /\ [][CamAppNext]_vars

---------------------------------------------------------------------------
\* Properties of process_document

StageNames == {"preprocess_image", "detect_document_contour", "correct_perspective",
               "enhance_image"}

\* the stages the call has executed, in order
StageSeq == SelectSeq(CallNames, LAMBDA n : n \in StageNames)

IsPrefix(s, t) == Len(s) <= Len(t) /\ SubSeq(t, 1, Len(s)) = s

RectifyPath ==
    <<"preprocess_image", "detect_document_contour", "correct_perspective", "enhance_image">>

FallbackPath == <<"preprocess_image", "detect_document_contour", "enhance_image">>

HasCall(fn) == \E i \in DOMAIN calls : calls[i].fn = fn

\* the buffer the enhancement was applied to
EnhanceSource == IF HasCall("correct_perspective") THEN corrected ELSE image

\* the operations the enhancement added to its source
AppliedEnhancement ==
    SubSeq(result.hist, Len(EnhanceSource.hist) + 1, Len(result.hist))

\* C1: when process_document has returned, a well-formed input (non-empty,
\* 3 channels) has produced an enhanced buffer, and a None result means that
\* the input buffer was rejected by preprocessing, before contour detection
\* and point ordering ran.
C1_ValidInputNeverFails ==
    pc = "done" =>
        /\ WellFormed(image) =>
              /\ result.kind = "ndarray"
              /\ calls[Len(calls)].fn = "enhance_image"
              /\ result.w >= 1 /\ result.h >= 1
        /\ result = None =>
              /\ ~WellFormed(image)
              /\ CvtBGR2GRAYRaises(image)
              /\ ~HasCall("detect_document_contour")
              /\ ~HasCall("order_points")

\* a well-formed input whose contour orders to a zero-width rectangle still
\* returns a buffer
C1_Witness ==
    /\ pc = "done"
    /\ WellFormed(image)
    /\ HasCall("order_points")
    /\ geometry.maxWidth = 0
    /\ result.kind = "ndarray"

\* C2: when contour detection reports no quadrilateral for a well-formed
\* input, the rectifier is not run and the result is a buffer, the enhancement
\* of the caller's buffer, with the input's width, height and channel count.
C2_FallbackKeepsShape ==
    (pc = "done" /\ WellFormed(image) /\ HasCall("detect_document_contour")
        /\ document_contour = NoContour) =>
        /\ ~HasCall("correct_perspective")
        /\ ~HasCall("warpPerspective")
        /\ StageSeq = FallbackPath
        /\ result.kind = "ndarray"
        /\ result.w = image.w /\ result.h = image.h /\ result.ch = image.ch
        /\ calls[Len(calls)] = Called("enhance_image", image)
        /\ IsPrefix(image.hist, result.hist)
        /\ Len(result.hist) > Len(image.hist)

\* the fallback taken with contours present, none of them a quadrilateral
C2_Witness ==
    /\ pc = "done"
    /\ WellFormed(image)
    /\ cnts # <<>>
    /\ document_contour = NoContour
    /\ result.kind = "ndarray"

\* C3 as stated: every terminal outcome, failure included, is reached after
\* Preprocessing and then ContourSearch, each stage run at most once.
C3_Original ==
    pc = "done" =>
        /\ Len(StageSeq) >= 2
        /\ StageSeq[1] = "preprocess_image"
        /\ StageSeq[2] = "detect_document_contour"
        /\ \A i, j \in DOMAIN StageSeq : StageSeq[i] = StageSeq[j] => i = j

\* the stages run so far are a prefix of one of the two paths, a returned
\* buffer has run one path in full, a returned None stopped in Preprocessing
StagesInOrder ==
    /\ IsPrefix(StageSeq, RectifyPath) \/ IsPrefix(StageSeq, FallbackPath)
    /\ (pc = "done" /\ result # None) => StageSeq \in {RectifyPath, FallbackPath}
    /\ (pc = "done" /\ result = None) => StageSeq = <<"preprocess_image">>

\* the positions at which a stage of process_document is ready to run
RunningStages == {"Preprocessing", "ContourSearch", "Rectify", "Enhance", "EnhanceFallback"}

\* a call is at rest (not started, or returned) or at a stage that can run
AtRestOrRunnable == pc \in {"idle", "done"} \cup RunningStages

\* every step of a running call executes exactly one further stage
StageAdvances ==
    pc \in RunningStages => Len(StageSeq') = Len(StageSeq) + 1

\* C3 amended: every call reaches a terminal outcome (a running call is always
\* at a stage that can run, every step runs one further stage, and the stages
\* run so far are always a prefix of Preprocessing, ContourSearch, Rectify,
\* Enhance or of Preprocessing, ContourSearch, Enhance, so each stage runs at
\* most once and none is re-entered); a call that returns a buffer has run one
\* of the two paths in full; a call that returns None stopped in Preprocessing
\* and never ran ContourSearch.
C3_StagesOnceInOrder ==
    /\ [](StagesInOrder /\ AtRestOrRunnable)
    /\ [][StageAdvances]_vars

\* both terminal kinds occur: here the failure after Preprocessing alone
C3_Witness ==
    /\ pc = "done"
    /\ result = None
    /\ StageSeq = <<"preprocess_image">>
    /\ image.kind = "ndarray"

C5_RectifiesOriginal ==
    /\ \A i \in DOMAIN calls :
          calls[i].arg = PreprocessChain => calls[i].fn = "detect_document_contour"
    /\ \A i \in DOMAIN calls :
          calls[i].fn \in {"correct_perspective", "warpPerspective"} =>
              calls[i] = Called(calls[i].fn, image)
    /\ (pc = "done" /\ HasCall("correct_perspective")) =>
          /\ corrected.hist = image.hist \o <<"warpPerspective">>
          /\ corrected.ch = image.ch
          /\ calls[Len(calls)] = Called("enhance_image", corrected)
          /\ StageSeq = RectifyPath

\* a finished call that rectified a colour photograph
C5_Witness ==
    /\ pc = "done"
    /\ HasCall("correct_perspective")
    /\ image.ch = 3
    /\ geometry.maxWidth >= 1 /\ geometry.maxHeight >= 1
    /\ result.kind = "ndarray"

\* C8 as stated: when the ordered quadrilateral has zero width or height, no
\* homography is solved, no resampling is run, and the caller receives a
\* DegenerateGeometry outcome that is neither a buffer nor the None of an
\* invalid buffer.
C8_DegenerateSurfaced ==
    (pc = "done" /\ geometry # NoGeometry
        /\ (geometry.maxWidth = 0 \/ geometry.maxHeight = 0)) =>
        /\ ~HasCall("getPerspectiveTransform")
        /\ ~HasCall("warpPerspective")
        /\ result.kind = "DegenerateGeometry"

---------------------------------------------------------------------------
\* Properties of order_points and of the output size

\* C6 as stated: for every convex quadrilateral of positive area, order_points
\* gives the same result for every order of the four corners.
C6_Original ==
    (gpc \in {"ordered", "sized"} /\ IsConvexQuad(pts)) => rect = rect_ref

\* C6 amended: for every convex quadrilateral of positive area in which the
\* minimum and the maximum of x + y and of y - x are each attained by exactly
\* one corner, order_points gives the same (TL, TR, BR, BL) sequence for every
\* order of the four corners.
C6_OrderIndependent ==
    (gpc \in {"ordered", "sized"} /\ IsConvexQuad(pts) /\ UniqueExtremes(pts)) =>
        rect = rect_ref

\* an axis-aligned unit square given in an order that is not the canonical one
C6_Witness ==
    /\ gpc = "ordered"
    /\ IsConvexQuad(pts)
    /\ UniqueExtremes(pts)
    /\ pts2 # pts
    /\ pts2 # rect
    /\ rect = <<<<0, 0>>, <<1, 0>>, <<1, 1>>, <<0, 1>>>>
    /\ rect = rect_ref

\* C7, on the contours approxPolyDP can return (four distinct integer pixel
\* points, the corners of a convex quadrilateral of positive area, listed in
\* the order the contour is walked): the computed output size has width >= 1
\* and height >= 1.
C7_SizeAtLeastOne ==
    (gpc = "sized" /\ InContourOrder(pts2)) => (size[1] >= 1 /\ size[2] >= 1)

---------------------------------------------------------------------------
\* Properties of the sharpness selector

FrameVariances == [i \in DOMAIN frames |-> LaplacianVariance(frames[i])]

\* C9: for a non-empty list, the frame _select_sharpest_frame returns is a
\* frame of the list whose Laplacian variance is the maximum over the list,
\* and no frame before it attains that maximum (all variances 0 included: the
\* first frame is returned).
C9_FirstSharpest ==
    (sel # NotCalled /\ frames # <<>>) =>
        /\ sel.kind = "frame"
        /\ sel.index \in DOMAIN frames
        /\ sel.frame = frames[sel.index]
        /\ \A j \in DOMAIN frames : FrameVariances[j] <= FrameVariances[sel.index]
        /\ \A j \in DOMAIN frames :
              j < sel.index => FrameVariances[j] < FrameVariances[sel.index]
        /\ (\A j \in DOMAIN frames : FrameVariances[j] = 0) => sel.index = 1

\* the maximum is attained twice, by different frames, after a blurrier first frame
C9_Witness ==
    /\ sel.kind = "frame"
    /\ sel.index = 2
    /\ Len(frames) = 3
    /\ FrameVariances[1] < FrameVariances[2]
    /\ FrameVariances[3] = FrameVariances[2]
    /\ frames[3] # frames[2]

---------------------------------------------------------------------------
\* Properties of contour detection

\* the place of contour i when the list is ordered by area, largest first,
\* contours of equal area in the order they were reported
RankOf(cs, i) ==
    1 + Cardinality({j \in DOMAIN cs :
                        \/ cs[j].area > cs[i].area
                        \/ (cs[j].area = cs[i].area /\ j < i)})

\* the contours among the five largest whose approximation has four vertices
TopQuads(cs) ==
    {i \in DOMAIN cs : RankOf(cs, i) <= TopContours /\ Len(cs[i].approx) = 4}

\* C11: detect_document_contour returns "no contour" exactly when there is no
\* contour or none of the 5 largest-area contours has a 4-vertex
\* approximation; a contour ranked 6th or lower is never the reason for a
\* quadrilateral to be returned.
C11_NoContourExactly ==
    kpc = "searched" =>
        /\ kquad = NoContour <=> (kcnts = <<>> \/ TopQuads(kcnts) = {})
        /\ kquad # NoContour => \E i \in TopQuads(kcnts) : kquad = kcnts[i].approx

\* six contours, the only quadrilateral ranked 6th: no contour is returned
C11_Witness ==
    /\ kpc = "searched"
    /\ Len(kcnts) = 6
    /\ \E i \in DOMAIN kcnts :
          /\ Len(kcnts[i].approx) = 4
          /\ RankOf(kcnts, i) = 6
          /\ \A j \in DOMAIN kcnts : j # i => Len(kcnts[j].approx) # 4
    /\ kquad = NoContour

\* C12: a returned quadrilateral is the approximation of a contour among the
\* 5 largest that has a 4-vertex approximation, no 4-vertex contour among the
\* 5 largest has a larger area, and every contour ranked before it has an
\* approximation with a vertex count other than 4.
C12_LargestQuadFirst ==
    (kpc = "searched" /\ kquad # NoContour) =>
        \E i \in TopQuads(kcnts) :
            /\ kquad = kcnts[i].approx
            /\ \A j \in TopQuads(kcnts) : kcnts[j].area <= kcnts[i].area
            /\ \A j \in DOMAIN kcnts :
                  RankOf(kcnts, j) < RankOf(kcnts, i) => Len(kcnts[j].approx) # 4

\* a smaller quadrilateral is reported first, a larger triangle and the
\* larger, different quadrilateral later: the larger quadrilateral is returned
C12_Witness ==
    /\ kpc = "searched"
    /\ Len(kcnts) = 3
    /\ kcnts[1] = [area |-> 1, approx |-> QuadSquare]
    /\ kcnts[2] = [area |-> 2, approx |-> Triangle]
    /\ kcnts[3] = [area |-> 2, approx |-> QuadSkew]
    /\ kquad = QuadSkew

\* x + y and y - x of one point
SumOf(p) == p[1] + p[2]
DiffOf(p) == p[2] - p[1]

\* r lists corners of the contour c as (TL, TR, BR, BL): least x + y, least
\* y - x, greatest x + y, greatest y - x over the points of c
CanonicalOf(r, c) ==
    /\ Len(r) = 4
    /\ \A k \in 1..4 : \E i \in DOMAIN c : r[k] = c[i]
    /\ \A i \in DOMAIN c :
          /\ SumOf(r[1]) <= SumOf(c[i]) /\ SumOf(c[i]) <= SumOf(r[3])
          /\ DiffOf(r[2]) <= DiffOf(c[i]) /\ DiffOf(c[i]) <= DiffOf(r[4])

\* C13 as stated: the quadrilateral detect_document_contour returns is already
\* in canonical (TL, TR, BR, BL) order.
C13_Original ==
    document_contour # NoContour => document_contour = order_points(document_contour)

\* C13 amended: detect_document_contour returns the 4-vertex approximation with
\* its points in the order approxPolyDP listed them, which need not be the
\* canonical order; the points are put in canonical (TL, TR, BR, BL) order by
\* order_points inside correct_perspective, after contour detection has
\* returned, and the rectifier's geometry is computed from the ordered points.
C13_OrderedByRectifier ==
    /\ document_contour # NoContour =>
          /\ Len(document_contour) = 4
          /\ \E i \in DOMAIN cnts : cnts[i].approx = document_contour
    /\ HasCall("order_points") =>
          /\ CanonicalOf(geometry.rect, document_contour)
          /\ \E i, j, k \in DOMAIN calls :
                /\ i < j /\ j < k
                /\ calls[i].fn = "detect_document_contour"
                /\ calls[j].fn = "correct_perspective"
                /\ calls[k].fn = "order_points"

\* a contour returned in an order that is not canonical, ordered by the rectifier
C13_Witness ==
    /\ pc = "done"
    /\ document_contour = QuadTurned
    /\ document_contour # order_points(document_contour)
    /\ geometry.rect = QuadSquare

---------------------------------------------------------------------------
\* Properties of the document-mode enhancements

\* the row is not empty and every pixel has the value v
FlatRow(px, v) == px # <<>> /\ \A i \in DOMAIN px : px[i] = v

\* the buffer is one the called function can run on
RunsOn(fn, b) ==
    /\ b.kind = "ndarray"
    /\ b.px # <<>>
    /\ fn = "_enhance_for_document" => b.ch = 3

\* C14 as stated: an all-black input gives an output without a white pixel.
C14_Original ==
    (xpc = "enhanced" /\ RunsOn(xfn, xin) /\ FlatRow(xin.px, 0)) =>
        \A i \in DOMAIN xout.px : xout.px[i] # 255

\* C14 amended: document/OCR-mode enhancement of an all-black input (every
\* pixel 0) returns a uniform output of the input's size in which every pixel
\* is white (255): a flat field lies above its local mean minus 2 everywhere,
\* so no pixel is dark and there is no isolated artefact.
C14_BlackGivesWhite ==
    (xpc = "enhanced" /\ RunsOn(xfn, xin) /\ FlatRow(xin.px, 0)) =>
        /\ xout.kind = "ndarray"
        /\ Len(xout.px) = Len(xin.px)
        /\ FlatRow(xout.px, 255)

\* an all-black BGR row of MaxStrip pixels through enhance_image
C14_Witness ==
    /\ xpc = "enhanced"
    /\ xfn = "enhance_image"
    /\ xin.ch = 3
    /\ Len(xin.px) = MaxStrip
    /\ FlatRow(xin.px, 0)
    /\ FlatRow(xout.px, 255)

\* C15: an all-white input gives an all-white output, and a flat field of any
\* single value gives a uniform output of the input's size: no pixel differs
\* from the others.
C15_FlatGivesUniform ==
    (xpc = "enhanced" /\ xin.kind = "ndarray" /\ xin.px # <<>>) =>
        /\ FlatRow(xin.px, 255) =>
              /\ xout.kind = "ndarray"
              /\ Len(xout.px) = Len(xin.px)
              /\ FlatRow(xout.px, 255)
        /\ \A v \in PixelLevels :
              FlatRow(xin.px, v) =>
                  /\ xout.kind = "ndarray"
                  /\ Len(xout.px) = Len(xin.px)
                  /\ \A i, j \in DOMAIN xout.px : xout.px[i] = xout.px[j]

\* a flat mid-grey BGR row through _enhance_for_document
C15_Witness ==
    /\ xpc = "enhanced"
    /\ xfn = "_enhance_for_document"
    /\ xin.ch = 3
    /\ Len(xin.px) = MaxStrip
    /\ FlatRow(xin.px, 100)
    /\ FlatRow(xout.px, 255)

\* C16: whenever a document-mode enhancement returns a buffer, every pixel of
\* it is 0 or 255; the binarization made a pixel 255 exactly when the value
\* handed to it exceeds the local mean minus 2; the returned buffer is binary
\* after the denoise pass as well.
C16_PureBlackWhite ==
    (xpc = "enhanced" /\ xout.kind = "ndarray") =>
        /\ \A i \in DOMAIN xout.px : xout.px[i] \in {0, 255}
        /\ \A i \in DOMAIN xthresh :
              xthresh[i] = 255 <=> xsmooth[i] > LocalMean(xsmooth)[i] - ThreshC

\* C17: an enhancement transform never returns the caller's buffer
\* unmodified; when one of its sub-steps cannot run on the buffer, what it
\* returns is a failure outcome.
C17_FailurePropagated ==
    tpc = "returned" =>
        /\ tout # tin
        /\ IsEmpty(tin) => tout = Raised
        /\ tout.kind = "ndarray" =>
              /\ IsPrefix(tin.hist, tout.hist)
              /\ Len(tout.hist) > Len(tin.hist)

---------------------------------------------------------------------------
\* Buffers of process_document: ownership and statelessness

\* None for an exception, else the buffer
OrNone(out) == IF out = Raised THEN None ELSE out

\* what process_document returns for a buffer and the contours found in its
\* edge map, computed from these two alone
PipelineResult(img, cs) ==
    IF preprocess_image(img) = Raised
    THEN None
    ELSE IF detect_document_contour(cs) = NoContour
         THEN OrNone(enhance_image(img))
         ELSE IF correct_perspective(img, detect_document_contour(cs)) = Raised
              THEN None
              ELSE OrNone(enhance_image(correct_perspective(img, detect_document_contour(cs))))

\* b is a buffer made from a by at least one library operation
MadeFrom(b, a) == IsPrefix(a.hist, b.hist) /\ Len(b.hist) > Len(a.hist)

\* every buffer a stage returned is a new one, made from the stage's input
FreshBuffers ==
    /\ preprocessed.kind = "ndarray" => (preprocessed # image /\ MadeFrom(preprocessed, image))
    /\ corrected.kind = "ndarray" => (corrected # image /\ MadeFrom(corrected, image))
    /\ (pc = "done" /\ result.kind = "ndarray") =>
          /\ result \notin {image, preprocessed, corrected}
          /\ MadeFrom(result, EnhanceSource)
    /\ pc = "done" => result = PipelineResult(image, cnts)

\* a step of a running call leaves the caller's buffer and the buffers the
\* earlier stages returned as they are
InputsUntouched ==
    pc \in RunningStages =>
        /\ image' = image
        /\ preprocessed.kind = "ndarray" => preprocessed' = preprocessed
        /\ corrected.kind = "ndarray" => corrected' = corrected
        /\ document_contour # NoContour => document_contour' = document_contour

\* C18: process_document and its stages leave the buffers they are given
\* unchanged and return new buffers, whether the call succeeds or fails, and
\* what a call returns is determined by its own input (the buffer and the
\* contours found in it), whatever calls came before.
C18_NewBuffersNoState ==
    /\ []FreshBuffers
    /\ [][InputsUntouched]_vars

\* a call on a BGRA photograph that rectified and returned a new buffer
C18_Witness ==
    /\ pc = "done"
    /\ image.ch = 4
    /\ image.w >= 1 /\ image.h >= 1
    /\ HasCall("correct_perspective")
    /\ result.kind = "ndarray"
    /\ result # image

---------------------------------------------------------------------------
\* Corners chosen by order_points

\* C19: for four pairwise distinct points that are the corners of a convex
\* quadrilateral of positive area, order_points returns four pairwise distinct
\* points, a permutation of its input: no point is assigned to two corners and
\* none is dropped.
C19_OutputIsPermutation ==
    (gpc \in {"ordered", "sized"} /\ IsConvexQuad(pts2)) =>
        /\ Len(rect) = 4
        /\ \A i, j \in 1..4 : i # j => rect[i] # rect[j]
        /\ {rect[i] : i \in 1..4} = {pts2[i] : i \in 1..4}

\* p is the first point of c, in the order given, at which K is least
IsFirstLeast(p, c, K(_)) ==
    \E i \in DOMAIN c :
        /\ c[i] = p
        /\ \A j \in DOMAIN c : K(c[j]) >= K(p)
        /\ \A j \in DOMAIN c : j < i => K(c[j]) > K(p)

\* p is the first point of c, in the order given, at which K is greatest
IsFirstGreatest(p, c, K(_)) ==
    \E i \in DOMAIN c :
        /\ c[i] = p
        /\ \A j \in DOMAIN c : K(c[j]) <= K(p)
        /\ \A j \in DOMAIN c : j < i => K(c[j]) < K(p)

\* x - y of one point
XMinusY(p) == p[1] - p[2]

\* C20 as stated: top-left has the least x + y, bottom-right the greatest
\* x + y, top-right the least x - y, bottom-left the greatest x - y.
C20_Original ==
    gpc \in {"ordered", "sized"} =>
        \A i \in 1..4 :
            /\ SumOf(rect[1]) <= SumOf(pts2[i]) /\ SumOf(pts2[i]) <= SumOf(rect[3])
            /\ XMinusY(rect[2]) <= XMinusY(pts2[i]) /\ XMinusY(pts2[i]) <= XMinusY(rect[4])

\* C20 amended: for every 4 input points, order_points sets top-left to the
\* point minimizing x + y, bottom-right to the point maximizing x + y,
\* top-right to the point minimizing y - x (that is, maximizing x - y) and
\* bottom-left to the point maximizing y - x (minimizing x - y), each time the
\* first such point in input order.
C20_CornersByExtremes ==
    gpc \in {"ordered", "sized"} =>
        /\ Len(rect) = 4
        /\ IsFirstLeast(rect[1], pts2, SumOf)
        /\ IsFirstGreatest(rect[3], pts2, SumOf)
        /\ IsFirstLeast(rect[2], pts2, DiffOf)
        /\ IsFirstGreatest(rect[4], pts2, DiffOf)
        /\ IsFirstGreatest(rect[2], pts2, XMinusY)
        /\ IsFirstLeast(rect[4], pts2, XMinusY)

\* a rectangle given from its bottom-left corner: top-right is the corner with
\* the greatest x - y
C20_Witness ==
    /\ gpc = "ordered"
    /\ pts2 = <<<<0, 3>>, <<2, 3>>, <<2, 0>>, <<0, 0>>>>
    /\ rect = <<<<0, 0>>, <<2, 0>>, <<2, 3>>, <<0, 3>>>>
    /\ XMinusY(rect[2]) = 2
    /\ XMinusY(rect[4]) = -3

\* the place of the point p in the input of order_points
IndexIn(c, p) == CHOOSE i \in DOMAIN c : c[i] = p

\* C21: when several input points attain the same extreme of x + y or of
\* y - x, the corner is the one with the lowest index in the input order,
\* for each of the four corners on its own.
C21_TieGoesToFirst ==
    gpc \in {"ordered", "sized"} =>
        \A i \in 1..4 :
            /\ SumOf(pts2[i]) = SumOf(rect[1]) => IndexIn(pts2, rect[1]) <= i
            /\ SumOf(pts2[i]) = SumOf(rect[3]) => IndexIn(pts2, rect[3]) <= i
            /\ DiffOf(pts2[i]) = DiffOf(rect[2]) => IndexIn(pts2, rect[2]) <= i
            /\ DiffOf(pts2[i]) = DiffOf(rect[4]) => IndexIn(pts2, rect[4]) <= i

\* two points tie for the least x + y and two others for the least y - x:
\* each corner goes to the earlier of its two
C21_Witness ==
    /\ gpc = "ordered"
    /\ pts2 = <<<<1, 0>>, <<0, 1>>, <<2, 1>>, <<1, 2>>>>
    /\ rect[1] = <<1, 0>>
    /\ rect[2] = <<1, 0>>
    /\ rect[3] = <<2, 1>>
    /\ rect[4] = <<0, 1>>

\* the larger of the squared lengths of two edges
LongerEdge2(a, b, c, d) == Max(Dist2(a, b), Dist2(c, d))

\* n is the square root of m rounded down
IsFloorSqrt(n, m) == n >= 0 /\ n * n <= m /\ (n + 1) * (n + 1) > m

\* C22: the output width is floor(max(distance(BR,BL), distance(TR,TL))), the
\* output height floor(max(distance(TR,BR), distance(TL,BL))), and the
\* destination corners are (0,0), (w-1,0), (w-1,h-1), (0,h-1).
C22_SizeIsFloorOfMax ==
    gpc = "sized" =>
        /\ IsFloorSqrt(size[1], LongerEdge2(rect[3], rect[4], rect[2], rect[1]))
        /\ IsFloorSqrt(size[2], LongerEdge2(rect[2], rect[3], rect[1], rect[4]))
        /\ gdst = <<<<0, 0>>, <<size[1] - 1, 0>>, <<size[1] - 1, size[2] - 1>>,
                    <<0, size[2] - 1>>>>

\* edges of different, non-integer lengths: sqrt(5) and sqrt(2) across,
\* sqrt(5) and sqrt(10) down
C22_Witness ==
    /\ gpc = "sized"
    /\ rect = <<<<0, 0>>, <<1, 1>>, <<2, 3>>, <<0, 2>>>>
    /\ size = <<2, 2>>
    /\ gdst = <<<<0, 0>>, <<1, 0>>, <<1, 1>>, <<0, 1>>>>

---------------------------------------------------------------------------
\* Properties of the visual-mode enhancement

\* the operations a transform added to its input
AddedOps == SubSeq(tout.hist, Len(tin.hist) + 1, Len(tout.hist))

\* C23: when _enhance_frame returns an enhanced frame, it has run denoise
\* (bilateral filter), then sharpen (filter2D), then the adaptive local
\* contrast (CLAHE), and the contrast step was applied to the luminance plane
\* only: the two chrominance planes merged back are the ones the split gave.
C23_VisualOrderLuminanceOnly ==
    (tpc = "returned" /\ tfn[1] = "_enhance_frame" /\ tout # tin) =>
        /\ \E i, j, k \in DOMAIN AddedOps :
              /\ i < j /\ j < k
              /\ AddedOps[i] = "bilateralFilter"
              /\ AddedOps[j] = "filter2D"
              /\ AddedOps[k] = "CLAHE"
        /\ \A i, j \in DOMAIN AddedOps : AddedOps[i] = AddedOps[j] => i = j
        /\ Len(tplanes) = 3
        /\ tplanes[1] = [plane |-> "l", ops |-> <<"CLAHE">>]
        /\ tplanes[2] = [plane |-> "a", ops |-> <<>>]
        /\ tplanes[3] = [plane |-> "b", ops |-> <<>>]

\* a BGR frame enhanced by _enhance_frame
C23_Witness ==
    /\ tpc = "returned"
    /\ tfn[1] = "_enhance_frame"
    /\ WellFormed(tin)
    /\ tout.hist = VisualChain
    /\ Len(tplanes) = 3

---------------------------------------------------------------------------
\* Properties of the page list

\* the step overwrites the image of a page that view_page did not open
OverwritesOther ==
    \E i \in DOMAIN scanned_pages : \E j \in DOMAIN scanned_pages' :
        /\ scanned_pages[i].id = scanned_pages'[j].id
        /\ scanned_pages[i].image # scanned_pages'[j].image
        /\ scanned_pages[i].id \notin viewed

\* C24: update_selected_page replaces the image of exactly the page the user
\* last opened with view_page, whatever deletions, moves, duplications and
\* clearings happened in between; no step overwrites the image of another page.
C24_UpdatesViewedPage == [][~OverwritesOther]_vars

\* the page list after the step is the list before it with the pages at the
\* 0-based positions i and j exchanged
MovedOnly(i, j) ==
    /\ Len(scanned_pages') = Len(scanned_pages)
    /\ scanned_pages'[i + 1] = scanned_pages[j + 1]
    /\ scanned_pages'[j + 1] = scanned_pages[i + 1]
    /\ \A k \in DOMAIN scanned_pages :
          k \notin {i + 1, j + 1} => scanned_pages'[k] = scanned_pages[k]

\* the step removed the page at index and nothing else
RemovedOnly(index) ==
    /\ Len(scanned_pages') = Len(scanned_pages) - 1
    /\ \A k \in DOMAIN scanned_pages' :
          scanned_pages'[k] = scanned_pages[IF k <= index THEN k ELSE k + 1]

\* the step put one new page with the image of the page at index right after it
InsertedAfter(index) ==
    /\ Len(scanned_pages') = Len(scanned_pages) + 1
    /\ scanned_pages'[index + 2].image = PageAt(index).image
    /\ scanned_pages'[index + 2].id \notin Ids(scanned_pages)
    /\ \A k \in DOMAIN scanned_pages :
          scanned_pages'[IF k <= index + 1 THEN k ELSE k + 1] = scanned_pages[k]

\* C30: move_page_up and move_page_down exchange the selected page with its
\* neighbour and change nothing at the boundary, delete_page removes exactly
\* the selected page, duplicate_page inserts exactly one copy right after the
\* original; every other page keeps its place relative to the others.
C30_PageOpsFrame ==
    [][scanned_pages' # scanned_pages => \A index \in Selectable :
          /\ move_page_up(index) =>
                IF index = 0
                THEN scanned_pages' = scanned_pages
                ELSE MovedOnly(index, index - 1)
          /\ move_page_down(index) =>
                IF index = Len(scanned_pages) - 1
                THEN scanned_pages' = scanned_pages
                ELSE MovedOnly(index, index + 1)
          /\ delete_page(index) => RemovedOnly(index)
          /\ duplicate_page(index) => InsertedAfter(index)]_vars

\* three pages, the middle one a copy made by duplicate_page of the first
C30_Witness ==
    /\ Len(scanned_pages) = 3
    /\ scanned_pages[1].id = 1
    /\ scanned_pages[2].id = 3
    /\ scanned_pages[3].id = 2
    /\ scanned_pages[2].image = scanned_pages[1].image
    /\ scanned_pages[3].image # scanned_pages[1].image

---------------------------------------------------------------------------
\* Properties of automatic processing and of PDF generation

\* C27: a processing thread stores its result in processed_image only when the
\* result was computed from the image that is current_image at that moment.
C27_StoredResultIsCurrent ==
    [][\A w \in WorkerIds :
          (ProcessStore(w) /\ workers[w].processed # None) =>
              workers[w].source = current_image]_vars

\* C29: the status line and the dialog report a generated PDF only when
\* create_pdf produced it.
C29_SuccessOnlyWhenProduced ==
    (status_var = "PDF generado" \/ messagebox = "Éxito") => pdf_returned = <<TRUE>>

---------------------------------------------------------------------------
\* Properties of the capture thread

\* C25: once stop_camera has returned and until start_camera is called again,
\* get_frame returns None: no capture thread writes current_frame after
\* stop_camera cleared it.
C25_NoFrameAfterStop == (upc = "idle" /\ camera = "None") => get_frame = None

\* the threads inside the while loop of _capture_loop
InLoop == {t \in ThreadIds : loops[t] \in {"test", "read", "store"}}

\* C26: at most one capture thread runs the capture loop at any time, and a
\* thread leaving the loop sets is_active to False only for its own session.
C26_OneLoopOwnSession ==
    /\ [](Cardinality(InLoop) <= 1)
    /\ [][\A t \in ThreadIds : (LoopExit(t) /\ is_active) => t = capture_thread]_vars

\* C28: whenever the application holds is_camera_active true between two of
\* its handlers, the CameraHandler's is_active is true.
C28_AppActiveImpliesHandlerActive == (upc = "idle" /\ is_camera_active) => is_active

====
